---------------------------- MODULE Spec2Model ----------------------------
(***************************************************************************)
(* State-machine model of ign_imgui (src/main.cc, src/CsvUtils.hh): the    *)
(* /clock callback that turns clock ticks into real-time-factor samples,   *)
(* the render loop that shares the aggregates with it under rtfsMutex, and *)
(* the CSV codec (ToCsv / FromCsv / GetNextCsv / GetNewLine).              *)
(*                                                                         *)
(* Numbers.  A double is modelled by the exact rational it approximates,   *)
(* a record [n, d] in lowest terms with d > 0; d = 0 stands for a          *)
(* non-finite double (n = 0 NaN, n = 1 +inf, n = -1 -inf).  A value that   *)
(* was narrowed to float (the elements of std::vector<float> rtfs) carries *)
(* the tag single = TRUE.  size_t values are integers; a negative integer  *)
(* v stands for 2^64 + v (the wrapped value).                              *)
(* Clock times carry whole seconds only (nsec = 0).                        *)
(***************************************************************************)
EXTENDS Integers, Sequences, FiniteSets, TLC

(***************************************************************************)
(* Bounds of the model.                                                    *)
(***************************************************************************)
MaxTicks == 3      \* clock messages delivered in a run of Spec
MaxOver == 3       \* samples stored beyond the buffer's capacity in SpecBuf
MaxSamples == 1    \* samples of a session that wrote an input file
MaxBins == 2       \* histogram bins of such a session

(***************************************************************************)
(* Program constants.                                                      *)
(***************************************************************************)
kHistBins == 200
kHistMin == 0
kHistMax == 2
kRtfsLimit == 250

(***************************************************************************)
(* Rational arithmetic for double values.                                  *)
(***************************************************************************)
Abs(x) == IF x < 0 THEN -x ELSE x

RECURSIVE Gcd(_, _)
Gcd(a, b) == IF b = 0 THEN a ELSE Gcd(b, a % b)

Frac(n, d) ==
  LET g == Gcd(Abs(n), Abs(d))
      s == IF d < 0 THEN -1 ELSE 1
  IN  [n |-> s * ((IF n < 0 THEN -1 ELSE 1) * (Abs(n) \div g)),
       d |-> Abs(d) \div g]

FromInt(i) == [n |-> i, d |-> 1]
Zero == FromInt(0)

FAdd(x, y) ==
  LET g == Gcd(x.d, y.d)
  IN  Frac(x.n * (y.d \div g) + y.n * (x.d \div g), x.d * (y.d \div g))

FNeg(x) == [n |-> -x.n, d |-> x.d]
FSub(x, y) == FAdd(x, FNeg(y))

FMul(x, y) ==
  LET a == Frac(x.n, y.d)
      b == Frac(y.n, x.d)
  IN  [n |-> a.n * b.n, d |-> a.d * b.d]

\* IEEE division of two finite doubles: x/0 is an infinity, 0/0 is a NaN
FDiv(x, y) ==
  IF y.n = 0
  THEN [n |-> IF x.n > 0 THEN 1 ELSE IF x.n < 0 THEN -1 ELSE 0, d |-> 0]
  ELSE FMul(x, Frac(y.d, y.n))

FLess(x, y) == x.n * y.d < y.n * x.d
FFloor(x) == x.n \div x.d

isfinite(x) == x.d # 0

\* double -> float narrowing done by rtfs.push_back(rtf) / rtfs[i] = rtf
FloatOf(x) == [n |-> x.n, d |-> x.d, single |-> TRUE]

(***************************************************************************)
(* ignition::math::SignalStats with the statistics max, min, mean, var.    *)
(***************************************************************************)
StatsEmpty ==
  [count |-> 0, sum |-> Zero, max |-> Zero, min |-> Zero,
   wmean |-> Zero, m2 |-> Zero]

StatsInsertData(s, x) ==
  LET c == s.count + 1
      delta == FSub(x, s.wmean)
      wm == FAdd(s.wmean, FDiv(delta, FromInt(c)))
  IN  [count |-> c,
       sum   |-> FAdd(s.sum, x),
       max   |-> IF s.count = 0 \/ FLess(s.max, x) THEN x ELSE s.max,
       min   |-> IF s.count = 0 \/ FLess(x, s.min) THEN x ELSE s.min,
       wmean |-> wm,
       m2    |-> FAdd(s.m2, FMul(delta, FSub(x, wm)))]

StatsReset(s) == StatsEmpty

StatsCount(s) == s.count

StatsMap(s) ==
  [mean |-> IF s.count = 0 THEN Zero ELSE FDiv(s.sum, FromInt(s.count)),
   var  |-> IF s.count < 2 THEN Zero ELSE FDiv(s.m2, FromInt(s.count - 1)),
   min  |-> s.min,
   max  |-> s.max]

(***************************************************************************)
(* ign_imgui::Histogram (Histogram.hh).                                    *)
(***************************************************************************)
HistMake(nb, lo, hi, cs) ==
  [numBins |-> nb, rangeMin |-> lo, rangeMax |-> hi, counts |-> cs]

HistConfigured ==
  HistMake(kHistBins, FromInt(kHistMin), FromInt(kHistMax),
           [i \in 0 .. kHistBins - 1 |-> 0])

HistBin(h, x) ==
  LET raw == FFloor(FDiv(FMul(FSub(x, h.rangeMin), FromInt(h.numBins)),
                         FSub(h.rangeMax, h.rangeMin)))
  IN  IF raw < 0 THEN 0
      ELSE IF raw > h.numBins - 1 THEN h.numBins - 1 ELSE raw

\* mutant: a sample outside [rangeMin, rangeMax) is dropped
HistInsertDataInRange(h, x) ==
  IF FLess(x, h.rangeMin) \/ ~FLess(x, h.rangeMax) THEN h
  ELSE [h EXCEPT !.counts[HistBin(h, x)] = @ + 1]

HistInsertData(h, x) ==
  [h EXCEPT !.counts[HistBin(h, x)] = @ + 1]

HistReset(h) == [h EXCEPT !.counts = [i \in DOMAIN h.counts |-> 0]]

RECURSIVE SumRange(_, _, _)
SumRange(f, lo, hi) ==
  IF lo > hi THEN 0
  ELSE IF lo = hi THEN f[lo]
  ELSE LET mid == (lo + hi) \div 2
       IN  SumRange(f, lo, mid) + SumRange(f, mid + 1, hi)

\* the number of samples the histogram counts
HistTotal(h) == SumRange(h.counts, 0, h.numBins - 1)

(***************************************************************************)
(* The recent-sample buffer: std::vector<float> rtfs.                      *)
(***************************************************************************)
\* mutant: a full buffer overwrites its newest element without shifting
RtfsStoreNoShift(buf, x) ==
  IF Len(buf) > kRtfsLimit
  THEN [ii \in 1 .. Len(buf) |->
          IF ii < Len(buf) THEN buf[ii] ELSE FloatOf(x)]
  ELSE Append(buf, FloatOf(x))

RtfsStore(buf, x) ==
  IF Len(buf) > kRtfsLimit
  THEN [ii \in 1 .. Len(buf) |->
          IF ii < Len(buf) THEN buf[ii + 1] ELSE FloatOf(x)]
  ELSE Append(buf, FloatOf(x))

(***************************************************************************)
(* Text: a sequence of one-character strings.  Streams: what is left to    *)
(* read and the eofbit and failbit of std::ios (badbit never arises).      *)
(***************************************************************************)
Digits == <<"0", "1", "2", "3", "4", "5", "6", "7", "8", "9">>
IsDigit(c) == \E i \in 1 .. 10 : Digits[i] = c
DigitVal(c) == (CHOOSE i \in 1 .. 10 : Digits[i] = c) - 1
IsSpace(c) == c \in {" ", "\n"}
IsSign(c) == c \in {"+", "-"}

\* F applied to the value v (v is computed once, where F uses it often)
With(v, F(_)) == F(v)

RECURSIVE Pow10(_)
Pow10(k) == IF k = 0 THEN 1 ELSE 10 * Pow10(k - 1)

Stream(text, failed) == [buf |-> text, eof |-> FALSE, fail |-> failed]
good(ist) == ~ist.eof /\ ~ist.fail

\* the index of the first character of s at or after i that is no white
\* space (that is a comma), or Len(s) + 1
RECURSIVE FirstNotSpace(_, _)
FirstNotSpace(s, i) ==
  IF i > Len(s) \/ ~IsSpace(s[i]) THEN i ELSE FirstNotSpace(s, i + 1)

RECURSIVE FirstComma(_, _)
FirstComma(s, i) ==
  IF i > Len(s) \/ s[i] = "," THEN i ELSE FirstComma(s, i + 1)

(***************************************************************************)
(* operator<< of std::ostream for size_t and for double (the default       *)
(* format: %g with precision 6).                                           *)
(***************************************************************************)
RECURSIVE NatText(_)
NatText(n) ==
  IF n < 10 THEN <<Digits[n + 1]>>
  ELSE Append(NatText(n \div 10), Digits[(n % 10) + 1])

\* the digits ds of a number, less k
RECURSIVE DigitsMinus(_, _)
DigitsMinus(ds, k) ==
  IF k = 0 THEN ds
  ELSE LET v == DigitVal(ds[Len(ds)]) - (k % 10)
       IN  Append(DigitsMinus(SubSeq(ds, 1, Len(ds) - 1),
                              (k \div 10) + (IF v < 0 THEN 1 ELSE 0)),
                  Digits[((v + 10) % 10) + 1])

\* 2^64
kSizeModulus ==
  <<"1", "8", "4", "4", "6", "7", "4", "4", "0", "7", "3", "7", "0", "9",
    "5", "5", "1", "6", "1", "6">>

\* a size_t: a negative n stands for 2^64 + n
SizeText(n) ==
  IF n >= 0 THEN NatText(n) ELSE DigitsMinus(kSizeModulus, -n)

kPrecision == 6

\* the decimal exponent of a / d > 0: the X with 10^X <= a/d < 10^(X+1)
RECURSIVE Exp10(_, _)
Exp10(a, d) ==
  IF a < d THEN Exp10(10 * a, d) - 1
  ELSE IF a >= 10 * d THEN Exp10(a, 10 * d) + 1
  ELSE 0

\* a / d rounded to the nearest integer, ties to even
RoundDiv(a, d) ==
  LET q == a \div d
      r == a % d
  IN  IF 2 * r > d \/ (2 * r = d /\ q % 2 = 1) THEN q + 1 ELSE q

\* (a * 10^k) / d as the pair <<numerator, denominator>>, cancelling tens
RECURSIVE ScaleUp(_, _, _)
ScaleUp(a, d, k) ==
  IF k = 0 THEN <<a, d>>
  ELSE IF d % 10 = 0 THEN ScaleUp(a, d \div 10, k - 1)
  ELSE ScaleUp(10 * a, d, k - 1)

RECURSIVE StripZeros(_)
StripZeros(ds) ==
  IF ds # <<>> /\ ds[Len(ds)] = "0"
  THEN StripZeros(SubSeq(ds, 1, Len(ds) - 1)) ELSE ds

Repeat(c, k) == [i \in 1 .. k |-> c]

\* %g of the number with the kPrecision digits q and the decimal exponent X
GText(sign, q, X) ==
  LET all == NatText(q)
      sig == StripZeros(all)
  IN  IF X < -4 \/ X >= kPrecision
      THEN sign \o <<sig[1]>>
             \o (IF Len(sig) > 1 THEN <<".">> \o Tail(sig) ELSE <<>>)
             \o <<"e", IF X < 0 THEN "-" ELSE "+">>
             \o (IF Abs(X) < 10 THEN <<"0">> ELSE <<>>) \o NatText(Abs(X))
      ELSE IF X >= 0
      THEN LET frac == StripZeros(SubSeq(all, X + 2, Len(all)))
           IN  sign \o SubSeq(all, 1, X + 1)
                 \o (IF frac # <<>> THEN <<".">> \o frac ELSE <<>>)
      ELSE sign \o <<"0", ".">> \o Repeat("0", -X - 1) \o sig

\* q0 of kPrecision digits (or 10^kPrecision, after a carry) at exponent X0
GRounded(sign, q0, X0) ==
  IF q0 >= Pow10(kPrecision) THEN GText(sign, q0 \div 10, X0 + 1)
  ELSE GText(sign, q0, X0)

DoubleText(x) ==
  LET sign == IF x.n < 0 THEN <<"-">> ELSE <<>>
      a == Abs(x.n)
  IN  IF x.d = 0
      THEN IF x.n = 0 THEN <<"n", "a", "n">> ELSE sign \o <<"i", "n", "f">>
      ELSE IF x.n = 0 THEN <<"0">>
      ELSE IF "largest" \in DOMAIN x
        THEN sign \o <<"1", ".", "7", "9", "7", "6", "9", "e", "+", "3", "0",
                       "8">>
      ELSE IF "exp10" \in DOMAIN x
        THEN With(Len(NatText(a)), LAMBDA len :
               GRounded(sign,
                        IF len <= kPrecision THEN a * Pow10(kPrecision - len)
                        ELSE RoundDiv(a, Pow10(len - kPrecision)),
                        len - 1 + x.exp10))
      ELSE With(Exp10(a, x.d), LAMBDA X0 :
             With(ScaleUp(a, x.d, kPrecision - 1 - X0), LAMBDA up :
               GRounded(sign,
                        IF kPrecision - 1 - X0 >= 0
                        THEN RoundDiv(up[1], up[2])
                        ELSE RoundDiv(a, x.d * Pow10(X0 + 1 - kPrecision)),
                        X0)))

(***************************************************************************)
(* operator>> of std::istream for double and size_t, on the characters of  *)
(* one field (the std::istringstream sst of GetNextCsv): leading white     *)
(* space is skipped, the longest run of characters that can continue a     *)
(* number is taken, eofbit says that the run reached the end of the field, *)
(* and a run that is no number sets failbit and stores 0.  With nothing    *)
(* but white space the value keeps what it held.                           *)
(***************************************************************************)

\* the end of the number that starts at i (the index after its last
\* character); dec: a point was taken, sci: an exponent was taken, mant: a
\* mantissa digit was taken
RECURSIVE ScanFloat(_, _, _, _, _)
ScanFloat(s, i, dec, sci, mant) ==
  IF i > Len(s) THEN i
  ELSE IF IsDigit(s[i]) THEN ScanFloat(s, i + 1, dec, sci, mant \/ ~sci)
  ELSE IF s[i] = "." /\ ~dec /\ ~sci THEN ScanFloat(s, i + 1, TRUE, sci, mant)
  ELSE IF s[i] \in {"e", "E"} /\ ~sci /\ mant
    THEN IF i + 1 <= Len(s) /\ IsSign(s[i + 1])
         THEN ScanFloat(s, i + 2, dec, TRUE, mant)
         ELSE ScanFloat(s, i + 1, dec, TRUE, mant)
  ELSE i

RECURSIVE ScanDigits(_, _)
ScanDigits(s, i) ==
  IF i <= Len(s) /\ IsDigit(s[i]) THEN ScanDigits(s, i + 1) ELSE i

\* the value of a run of digits
RECURSIVE DigitsVal(_)
DigitsVal(ds) ==
  IF ds = <<>> THEN 0
  ELSE 10 * DigitsVal(SubSeq(ds, 1, Len(ds) - 1)) + DigitVal(ds[Len(ds)])

\* the digits ds without their leading zeros
RECURSIVE StripLeading(_)
StripLeading(ds) ==
  IF ds # <<>> /\ ds[1] = "0" THEN StripLeading(Tail(ds)) ELSE ds

\* digits a before digits b in the order of the decimal fractions 0.a, 0.b
RECURSIVE FracLess(_, _)
FracLess(a, b) ==
  IF b = <<>> THEN FALSE
  ELSE IF a = <<>> THEN \E i \in 1 .. Len(b) : b[i] # "0"
  ELSE IF a[1] # b[1] THEN DigitVal(a[1]) < DigitVal(b[1])
  ELSE FracLess(Tail(a), Tail(b))

\* DBL_MAX is 1.7976931348623157e308, the least double above 0 is 4.9e-324
kMaxExp10 == 308
kMinExp10 == -324
kMaxDigits ==
  <<"1", "7", "9", "7", "6", "9", "3", "1", "3", "4", "8", "6", "2", "3",
    "1", "5", "7">>

\* the largest power of ten and the longest run of digits the exact
\* fractions hold
kExactDigits == 8

\* strtod on the characters t taken by ScanFloat: the number when all of t
\* is one, otherwise a failure.  A number too large for a double is an
\* overflow, which stores the largest double and fails like no number; a
\* number outside the exact fractions is kept as n * 10^exp10.
FloatOfText(t) ==
  LET neg == t # <<>> /\ t[1] = "-"
      m0 == IF t # <<>> /\ IsSign(t[1]) THEN 2 ELSE 1
      iend == ScanDigits(t, m0)
      hasDot == iend <= Len(t) /\ t[iend] = "."
      f0 == IF hasDot THEN iend + 1 ELSE iend
      fend == ScanDigits(t, f0)
      int == SubSeq(t, m0, iend - 1)
      frac == SubSeq(t, f0, fend - 1)
      hasE == fend <= Len(t)
      e0 == IF hasE /\ fend + 1 <= Len(t) /\ IsSign(t[fend + 1])
            THEN fend + 2 ELSE fend + 1
      expDigits == IF hasE THEN StripLeading(SubSeq(t, e0, Len(t))) ELSE <<>>
      expNeg == hasE /\ e0 = fend + 2 /\ t[fend + 1] = "-"
      ok == /\ int \o frac # <<>>
            /\ hasE => e0 <= Len(t)
      sig == StripLeading(int \o frac)
      \* an exponent of more than four digits is beyond every double
      expVal == IF Len(expDigits) > 4 THEN 10000 ELSE DigitsVal(expDigits)
      scale == (IF expNeg THEN -1 ELSE 1) * expVal - Len(frac)
      top == Len(sig) - 1 + scale       \* the exponent in scientific form
      sgn == IF neg THEN -1 ELSE 1
  IN  IF ~ok THEN [ok |-> FALSE, value |-> Zero]
      ELSE IF sig = <<>> THEN [ok |-> TRUE, value |-> Zero]
      ELSE IF top > kMaxExp10 \/ (top = kMaxExp10 /\ FracLess(kMaxDigits, sig))
        THEN [ok |-> FALSE, value |-> [n |-> sgn, d |-> 1, largest |-> TRUE]]
      ELSE IF top < kMinExp10 THEN [ok |-> TRUE, value |-> Zero]
      ELSE IF scale >= 0 /\ Len(sig) + scale <= kExactDigits
        THEN [ok |-> TRUE,
              value |-> Frac(sgn * DigitsVal(sig) * Pow10(scale), 1)]
      ELSE IF scale < 0 /\ -scale <= kExactDigits
        THEN [ok |-> TRUE, value |-> Frac(sgn * DigitsVal(sig), Pow10(-scale))]
      ELSE [ok |-> TRUE,
            value |-> [n |-> sgn * DigitsVal(sig), d |-> 1, exp10 |-> scale]]

ExtractDouble(s, old) ==
  LET i == FirstNotSpace(s, 1)
  IN  IF i > Len(s) THEN [value |-> old, eof |-> TRUE, fail |-> TRUE]
      ELSE With(ScanFloat(s, IF IsSign(s[i]) THEN i + 1 ELSE i,
                          FALSE, FALSE, FALSE), LAMBDA j :
             With(FloatOfText(SubSeq(s, i, j - 1)), LAMBDA c :
               [value |-> c.value, eof |-> j > Len(s), fail |-> ~c.ok]))

\* size_t: a "-" negates modulo 2^64
ExtractSize(s, old) ==
  LET i == FirstNotSpace(s, 1)
  IN  IF i > Len(s) THEN [value |-> old, eof |-> TRUE, fail |-> TRUE]
      ELSE LET b == IF IsSign(s[i]) THEN i + 1 ELSE i
               j == ScanDigits(s, b)
               v == DigitsVal(SubSeq(s, b, j - 1))
           IN  [value |-> IF s[i] = "-" THEN -v ELSE v,
                eof |-> j > Len(s), fail |-> j = b]

Extract(kind, s, old) ==
  IF kind = "double" THEN ExtractDouble(s, old) ELSE ExtractSize(s, old)

(***************************************************************************)
(* CsvUtils.hh.  A result carries the stream, whether the call threw, and  *)
(* for GetNextCsv the field it read and the value it left.                 *)
(***************************************************************************)

\* std::getline(ist, str, ',')
GetLine(ist) ==
  IF ~good(ist) THEN [ist |-> [ist EXCEPT !.fail = TRUE], str |-> <<>>]
  ELSE LET c == FirstComma(ist.buf, 1)
       IN  IF c <= Len(ist.buf)
           THEN [ist |-> [ist EXCEPT !.buf = SubSeq(ist.buf, c + 1, Len(ist.buf))],
                 str |-> SubSeq(ist.buf, 1, c - 1)]
           ELSE [ist |-> [buf |-> <<>>, eof |-> TRUE, fail |-> ist.buf = <<>>],
                 str |-> ist.buf]

GetNextCsv(ist, kind, old) ==
  With(GetLine(ist), LAMBDA g :
    IF ~good(g.ist)
    THEN [ist |-> g.ist, threw |-> TRUE, kind |-> kind, str |-> g.str,
          value |-> old]
    ELSE With(Extract(kind, g.str, old), LAMBDA x :
           [ist |-> g.ist, threw |-> ~x.eof, kind |-> kind, str |-> g.str,
            value |-> x.value]))

\* ist >> std::ws
SkipWs(ist) ==
  IF ~good(ist) THEN [ist EXCEPT !.fail = TRUE]
  ELSE LET i == FirstNotSpace(ist.buf, 1)
       IN  [buf |-> SubSeq(ist.buf, i, Len(ist.buf)),
            eof |-> i > Len(ist.buf), fail |-> FALSE]

\* str: the whitespace that was skipped
GetNewLine(ist) ==
  With(SkipWs(ist), LAMBDA w :
    [ist |-> w, threw |-> ~good(w), kind |-> "newline",
     str |-> SubSeq(ist.buf, 1, Len(ist.buf) - Len(w.buf)), value |-> 0])

(***************************************************************************)
(* ign_imgui::Histogram::ToCsv and FromCsv (Histogram.hh), in the format   *)
(* of the persisted session: the line numBins,rangeMin,rangeMax, and the   *)
(* line of the bin counts, every field followed by a comma.  FromCsv reads *)
(* with GetNextCsv and GetNewLine and replaces the histogram only when all *)
(* of its fields have been read.                                           *)
(***************************************************************************)
\* the counts of the bins lo .. hi, each followed by a comma
RECURSIVE CountsText(_, _, _)
CountsText(h, lo, hi) ==
  IF lo > hi THEN <<>>
  ELSE IF lo = hi THEN SizeText(h.counts[lo]) \o <<",">>
  ELSE LET mid == (lo + hi) \div 2
       IN  CountsText(h, lo, mid) \o CountsText(h, mid + 1, hi)

HistToCsv(h) ==
  SizeText(h.numBins) \o <<",">> \o DoubleText(h.rangeMin) \o <<",">>
    \o DoubleText(h.rangeMax) \o <<",", "\n">>
    \o CountsText(h, 0, h.numBins - 1) \o <<"\n">>

\* the results of reading the bin counts i, i+1, ... of n (n < 0: a wrapped
\* size_t, more bins than any file holds) from ist
RECURSIVE ReadCounts(_, _, _, _)
ReadCounts(ist, i, n, old) ==
  IF n >= 0 /\ i >= n THEN <<>>
  ELSE With(GetNextCsv(ist, "size", old), LAMBDA r :
         IF r.threw THEN <<r>>
         ELSE <<r>> \o ReadCounts(r.ist, i + 1, n, old))

\* the calls of GetNextCsv (kinds "size", "double") and GetNewLine (kind
\* "newline") in the order kinds, up to the first that throws; olds: what
\* the values hold before
RECURSIVE ReadSteps(_, _, _)
ReadSteps(ist, kinds, olds) ==
  IF kinds = <<>> THEN <<>>
  ELSE With(IF kinds[1] = "newline" THEN GetNewLine(ist)
            ELSE GetNextCsv(ist, kinds[1], olds[1]), LAMBDA r :
         IF r.threw THEN <<r>>
         ELSE <<r>> \o ReadSteps(r.ist, Tail(kinds), Tail(olds)))

IsField(r) == r.kind # "newline"
IsSeparator(r) == r.kind = "newline"

HistFromCsv(ist, h) ==
  With(ReadSteps(ist, <<"size", "double", "double", "newline">>,
                 <<h.numBins, h.rangeMin, h.rangeMax, 0>>), LAMBDA rs :
    With(IF rs[Len(rs)].threw THEN <<>>
         ELSE ReadCounts(rs[4].ist, 0, rs[1].value, 0), LAMBDA cs :
      With((rs \o cs)[Len(rs) + Len(cs)], LAMBDA last :
        [ist |-> last.ist,
         threw |-> last.threw,
         fields |-> SelectSeq(rs \o cs, IsField),
         hist |-> IF last.threw THEN h
                  ELSE HistMake(rs[1].value, rs[2].value, rs[3].value,
                                [i \in 0 .. Len(cs) - 1 |-> cs[i + 1].value])])))

(***************************************************************************)
(* ign_imgui::ToCsv and ign_imgui::FromCsv (main.cc).                      *)
(***************************************************************************)
ToCsv(s, h, simTime, realTime) ==
  DoubleText(simTime) \o <<",">> \o DoubleText(realTime) \o <<",", "\n">>
    \o NatText(StatsCount(s)) \o <<",">>
    \o DoubleText(StatsMap(s).mean) \o <<",">>
    \o DoubleText(StatsMap(s).var) \o <<",">>
    \o DoubleText(StatsMap(s).min) \o <<",">>
    \o DoubleText(StatsMap(s).max) \o <<",", "\n">>
    \o HistToCsv(h)

\* while (ist.good()) { std::string str; ist >> str; ... }
RECURSIVE TrailLoop(_)
TrailLoop(ist) ==
  IF ~good(ist) THEN ist
  ELSE LET i == FirstNotSpace(ist.buf, 1)
           j == IF i > Len(ist.buf) THEN i
                ELSE CHOOSE k \in i + 1 .. Len(ist.buf) + 1 :
                       /\ k = Len(ist.buf) + 1 \/ IsSpace(ist.buf[k])
                       /\ \A m \in i + 1 .. k - 1 : ~IsSpace(ist.buf[m])
       IN  IF i > Len(ist.buf)
           THEN [buf |-> <<>>, eof |-> TRUE, fail |-> TRUE]
           ELSE TrailLoop([buf |-> SubSeq(ist.buf, j, Len(ist.buf)),
                           eof |-> j > Len(ist.buf), fail |-> FALSE])

\* uninit: the indeterminate LoadedData that the local `data` starts as
FromCsv(ist, h, uninit) ==
  With(ReadSteps(ist,
                 <<"double", "double", "newline", "size", "double",
                   "double", "double", "double", "newline">>,
                 <<uninit.simTime, uninit.realTime, 0, uninit.count,
                   uninit.mean, uninit.var, uninit.min, uninit.max, 0>>),
       LAMBDA rs :
    With(IF rs[Len(rs)].threw
         THEN [ist |-> rs[Len(rs)].ist, threw |-> TRUE, fields |-> <<>>,
               hist |-> h]
         ELSE HistFromCsv(rs[Len(rs)].ist, h), LAMBDA hr :
      With(IF hr.threw THEN hr.ist ELSE TrailLoop(hr.ist), LAMBDA end :
        [threw |-> hr.threw \/ ~end.eof,
         data |-> IF rs[Len(rs)].threw THEN uninit
                  ELSE [simTime |-> rs[1].value, realTime |-> rs[2].value,
                        count |-> rs[4].value, mean |-> rs[5].value,
                        var |-> rs[6].value, min |-> rs[7].value,
                        max |-> rs[8].value],
         hist |-> hr.hist,
         fields |-> SelectSeq(rs, IsField) \o hr.fields,
         separators |-> SelectSeq(rs, IsSeparator),
         tail |-> IF hr.threw THEN <<>> ELSE hr.ist.buf])))

(***************************************************************************)
(* Program state.                                                          *)
(***************************************************************************)
VARIABLES
  rtfsMutex,        \* "free", "cb" or "main": owner of std::mutex rtfsMutex
  msg_z,            \* the baseline clock message [sim, real]
  first,
  animate,
  rtfs,
  stats,
  hist,
  real_z, sim_z,    \* main's ignition::common::Time real_z, sim_z
  usingLoadedData,
  shouldClose,
  subscribed,       \* node.Subscribe("/clock", cb) is in effect
  cbpc,             \* position of the callback
  msg,              \* the callback's argument _msg
  rtf,              \* the callback's local rtf
  mainpc,           \* position of main
  inputCsv,         \* the --input path, "" when none was given
  inputFile,        \* the file at that path: [exists, text]
  loadedData,       \* main's LoadedData loadedData
  load,             \* what FromCsv did: its result and the fields it read
  snap,             \* history: the session that wrote inputFile
  outputCsv,        \* the --output path, "" when none was given
  outFile,          \* the file at that path: [exists, text]
  saved,            \* history: what the save step passed to ToCsv, and when
  sinceReset,       \* history: samples accepted since the start or last Reset
  ticks,            \* history: the messages delivered to the callback
  accepted,         \* history: indices in ticks of the stored samples
  everOff           \* history: Animate has been unchecked at some time

loadVars == <<inputCsv, inputFile, loadedData, load, snap>>
saveVars == <<outputCsv, outFile, saved>>

vars ==
  <<rtfsMutex, msg_z, first, animate, rtfs, stats, hist, real_z, sim_z,
    usingLoadedData, shouldClose, subscribed, cbpc, msg, rtf, mainpc,
    ticks, accepted, everOff, loadVars, saveVars, sinceReset>>

ClockMsg(s, r) == [sim |-> s, real |-> r]

\* the clock messages the transport delivers in Spec, as (sim, real): real
\* times that repeat (zero delta), advance by one or two and go backwards,
\* simulated times that stall, advance and go backwards
AnyTick ==
  {ClockMsg(0, 0), ClockMsg(0, 1), ClockMsg(1, 1), ClockMsg(1, 2),
   ClockMsg(3, 1), ClockMsg(3, 2)}

(***************************************************************************)
(* The input of a run with --input.                                        *)
(***************************************************************************)
File(t) == [exists |-> TRUE, text |-> t]
NoFile == [exists |-> FALSE, text |-> <<>>]

\* the values an uninitialized LoadedData may hold
Uninit ==
  {[count |-> c, mean |-> x, var |-> x, max |-> x, min |-> x,
    realTime |-> x, simTime |-> x] : <<c, x>> \in {<<0, Zero>>, <<7, FromInt(7)>>}}

UninitData == CHOOSE u \in Uninit : u.count = 0

\* what is kept of the reads of a load: the kind read, the field's text
\* and the value the read left
Steps(rs) ==
  [i \in 1 .. Len(rs) |->
     [kind |-> rs[i].kind, str |-> rs[i].str, value |-> rs[i].value]]

NoSave == [done |-> FALSE, simTime |-> 0, realTime |-> 0, quiet |-> TRUE]

NoLoad ==
  [done |-> FALSE, threw |-> FALSE, hist |-> HistConfigured, fields |-> <<>>,
   separators |-> <<>>, tail |-> <<>>]

\* sessions that wrote a file after storing a sample: the samples they stored, the histogram they
\* were configured with and the times they saved
SampleValues == {Frac(1, 3), Frac(3, 2), FromInt(-2)}
SessionTimes == {<<0, 0>>, <<2000001, 12>>}

RECURSIVE SeqsUpTo(_, _)
SeqsUpTo(S, k) ==
  IF k = 0 THEN {<<>>}
  ELSE LET shorter == SeqsUpTo(S, k - 1)
       IN  shorter \cup {Append(q, x) : q \in shorter, x \in S}

RECURSIVE StatsOf(_)
StatsOf(q) ==
  IF q = <<>> THEN StatsEmpty
  ELSE StatsInsertData(StatsOf(SubSeq(q, 1, Len(q) - 1)), q[Len(q)])

RECURSIVE HistOf(_, _)
HistOf(q, nb) ==
  IF q = <<>>
  THEN HistMake(nb, FromInt(kHistMin), FromInt(kHistMax),
                [i \in 0 .. nb - 1 |-> 0])
  ELSE HistInsertData(HistOf(SubSeq(q, 1, Len(q) - 1), nb), q[Len(q)])

Sessions ==
  {[stats |-> StatsOf(q), hist |-> HistOf(q, nb),
    simTime |-> FromInt(t[1]), realTime |-> FromInt(t[2])] :
     q \in SeqsUpTo(SampleValues, MaxSamples) \ {<<>>}, nb \in 1 .. MaxBins,
     t \in SessionTimes}

NoSession ==
  [stats |-> StatsEmpty, hist |-> HistConfigured,
   simTime |-> Zero, realTime |-> Zero]

\* the characters an edit inserts
EditChars == {"a", " ", "e", "-", ",", "\n"}

Edits(t) ==
  {t}
    \cup {SubSeq(t, 1, p - 1) \o SubSeq(t, p + 1, Len(t)) : p \in 1 .. Len(t)}
    \cup {SubSeq(t, 1, p) \o <<c>> \o SubSeq(t, p + 1, Len(t)) :
            p \in 0 .. Len(t), c \in EditChars}


(***************************************************************************)
(* The clock callback cb (main.cc lines 193-234), one step per statement   *)
(* group; std::lock_guard holds rtfsMutex from entry to return.            *)
(***************************************************************************)

\* the transport delivers _msg; the callback takes the lock
CbEnter(m, limit) ==
  /\ subscribed
  /\ cbpc = "idle"
  /\ Len(ticks) < limit
  /\ rtfsMutex = "free"
  /\ rtfsMutex' = "cb"
  /\ msg' = m
  /\ ticks' = Append(ticks, m)
  /\ cbpc' = "first"
  /\ UNCHANGED loadVars
  /\ UNCHANGED <<saveVars, sinceReset>>
  /\ UNCHANGED <<msg_z, first, animate, rtfs, stats, hist, real_z, sim_z,
                 usingLoadedData, shouldClose, subscribed, rtf, mainpc,
                 accepted, everOff>>

\* if (first) { msg_z = _msg; first = false; return; }
CbFirst ==
  /\ cbpc = "first"
  /\ first
  /\ msg_z' = msg
  /\ first' = FALSE
  /\ rtfsMutex' = "free"
  /\ cbpc' = "idle"
  /\ UNCHANGED loadVars
  /\ UNCHANGED <<saveVars, sinceReset>>
  /\ UNCHANGED <<animate, rtfs, stats, hist, real_z, sim_z, usingLoadedData,
                 shouldClose, subscribed, msg, rtf, mainpc, ticks, accepted,
                 everOff>>

\* mutant: the baseline is replaced only when the sample is stored
CbComputeKeepBaseline ==
  /\ cbpc = "first"
  /\ ~first
  /\ real_z' = msg_z.real
  /\ sim_z' = msg_z.sim
  /\ LET real_dt == msg.real - msg_z.real
         sim_dt == msg.sim - msg_z.sim
         r == FDiv(FromInt(sim_dt), FromInt(real_dt))
     IN  /\ rtf' = r
         /\ IF animate /\ isfinite(r)
            THEN /\ cbpc' = "stats"
                 /\ accepted' = Append(accepted, Len(ticks))
                 /\ sinceReset' = sinceReset + 1
                 /\ msg_z' = msg
            ELSE /\ cbpc' = "return"
                 /\ UNCHANGED <<accepted, msg_z, sinceReset>>
  /\ UNCHANGED loadVars
  /\ UNCHANGED saveVars
  /\ UNCHANGED <<rtfsMutex, first, animate, rtfs, stats, hist,
                 usingLoadedData, shouldClose, subscribed, msg, mainpc,
                 ticks, everOff>>

\* mutant: the guard is if (animate), without std::isfinite(rtf)
CbComputeNoGuard ==
  /\ cbpc = "first"
  /\ ~first
  /\ real_z' = msg_z.real
  /\ sim_z' = msg_z.sim
  /\ LET real_dt == msg.real - msg_z.real
         sim_dt == msg.sim - msg_z.sim
         r == FDiv(FromInt(sim_dt), FromInt(real_dt))
     IN  /\ rtf' = r
         /\ IF animate
            THEN /\ cbpc' = "stats"
                 /\ accepted' = Append(accepted, Len(ticks))
                 /\ sinceReset' = sinceReset + 1
            ELSE /\ cbpc' = "return"
                 /\ UNCHANGED <<accepted, sinceReset>>
  /\ msg_z' = msg
  /\ UNCHANGED loadVars
  /\ UNCHANGED saveVars
  /\ UNCHANGED <<rtfsMutex, first, animate, rtfs, stats, hist,
                 usingLoadedData, shouldClose, subscribed, msg, mainpc,
                 ticks, everOff>>

\* real_z, sim_z from msg_z; rtf = sim_dt / real_dt; msg_z = _msg; the guard
CbCompute ==
  /\ cbpc = "first"
  /\ ~first
  /\ real_z' = msg_z.real
  /\ sim_z' = msg_z.sim
  /\ LET real_dt == msg.real - msg_z.real
         sim_dt == msg.sim - msg_z.sim
         r == FDiv(FromInt(sim_dt), FromInt(real_dt))
     IN  /\ rtf' = r
         /\ IF animate /\ isfinite(r)
            THEN /\ cbpc' = "stats"
                 /\ accepted' = Append(accepted, Len(ticks))
                 /\ sinceReset' = sinceReset + 1
            ELSE /\ cbpc' = "return"
                 /\ UNCHANGED <<accepted, sinceReset>>
  /\ msg_z' = msg
  /\ UNCHANGED loadVars
  /\ UNCHANGED saveVars
  /\ UNCHANGED <<rtfsMutex, first, animate, rtfs, stats, hist,
                 usingLoadedData, shouldClose, subscribed, msg, mainpc,
                 ticks, everOff>>

\* stats.InsertData(rtf)
CbStats ==
  /\ cbpc = "stats"
  /\ stats' = StatsInsertData(stats, rtf)
  /\ cbpc' = "hist"
  /\ UNCHANGED loadVars
  /\ UNCHANGED <<saveVars, sinceReset>>
  /\ UNCHANGED <<rtfsMutex, msg_z, first, animate, rtfs, hist, real_z, sim_z,
                 usingLoadedData, shouldClose, subscribed, msg, rtf, mainpc,
                 ticks, accepted, everOff>>

\* hist.InsertData(rtf)
CbHist ==
  /\ cbpc = "hist"
  /\ hist' = HistInsertData(hist, rtf)
  /\ cbpc' = "rtfs"
  /\ UNCHANGED loadVars
  /\ UNCHANGED <<saveVars, sinceReset>>
  /\ UNCHANGED <<rtfsMutex, msg_z, first, animate, rtfs, stats, real_z, sim_z,
                 usingLoadedData, shouldClose, subscribed, msg, rtf, mainpc,
                 ticks, accepted, everOff>>

\* the shift or push_back on rtfs
CbRtfs ==
  /\ cbpc = "rtfs"
  /\ rtfs' = RtfsStore(rtfs, rtf)
  /\ cbpc' = "return"
  /\ UNCHANGED loadVars
  /\ UNCHANGED <<saveVars, sinceReset>>
  /\ UNCHANGED <<rtfsMutex, msg_z, first, animate, stats, hist, real_z, sim_z,
                 usingLoadedData, shouldClose, subscribed, msg, rtf, mainpc,
                 ticks, accepted, everOff>>

\* the callback returns and the lock_guard releases rtfsMutex
CbReturn ==
  /\ cbpc = "return"
  /\ rtfsMutex' = "free"
  /\ cbpc' = "idle"
  /\ UNCHANGED loadVars
  /\ UNCHANGED <<saveVars, sinceReset>>
  /\ UNCHANGED <<msg_z, first, animate, rtfs, stats, hist, real_z, sim_z,
                 usingLoadedData, shouldClose, subscribed, msg, rtf, mainpc,
                 ticks, accepted, everOff>>

(***************************************************************************)
(* main: the --input file (lines 184-189) and the subscription (191-236).  *)
(***************************************************************************)

\* if (inputCsv.size()) { ... FromCsv(fs, hist); usingLoadedData = true; }
\* nothing catches what FromCsv throws: the program ends in std::terminate
MainLoad ==
  /\ mainpc = "start"
  /\ inputCsv # ""
  /\ \E u \in Uninit :
       \E r \in {FromCsv(Stream(inputFile.text, ~inputFile.exists), hist, u)} :
         /\ load' = [done |-> TRUE, threw |-> r.threw, hist |-> r.hist,
                     fields |-> Steps(r.fields),
                     separators |-> Steps(r.separators), tail |-> r.tail]
         /\ hist' = r.hist
         /\ IF r.threw
            THEN /\ mainpc' = "aborted"
                 /\ UNCHANGED <<loadedData, usingLoadedData>>
            ELSE /\ mainpc' = "subscribe"
                 /\ loadedData' = r.data
                 /\ usingLoadedData' = TRUE
  /\ UNCHANGED <<inputCsv, inputFile, snap>>
  /\ UNCHANGED <<saveVars, sinceReset>>
  /\ UNCHANGED <<rtfsMutex, msg_z, first, animate, rtfs, stats, real_z, sim_z,
                 shouldClose, subscribed, cbpc, msg, rtf, ticks, accepted,
                 everOff>>

\* inputCsv is empty
MainSkipLoad ==
  /\ mainpc = "start"
  /\ inputCsv = ""
  /\ mainpc' = "subscribe"
  /\ UNCHANGED loadVars
  /\ UNCHANGED <<saveVars, sinceReset>>
  /\ UNCHANGED <<rtfsMutex, msg_z, first, animate, rtfs, stats, hist, real_z,
                 sim_z, usingLoadedData, shouldClose, subscribed, cbpc, msg,
                 rtf, ticks, accepted, everOff>>

\* mutant: the subscription is made whether or not a session was loaded
MainSubscribeAlways ==
  /\ mainpc = "subscribe"
  /\ subscribed' = TRUE
  /\ mainpc' = "loop"
  /\ UNCHANGED loadVars
  /\ UNCHANGED <<saveVars, sinceReset>>
  /\ UNCHANGED <<rtfsMutex, msg_z, first, animate, rtfs, stats, hist, real_z,
                 sim_z, usingLoadedData, shouldClose, cbpc, msg, rtf, ticks,
                 accepted, everOff>>

\* if (!usingLoadedData) { ... node.Subscribe("/clock", cb); }
MainSubscribe ==
  /\ mainpc = "subscribe"
  /\ subscribed' = ~usingLoadedData
  /\ mainpc' = "loop"
  /\ UNCHANGED loadVars
  /\ UNCHANGED <<saveVars, sinceReset>>
  /\ UNCHANGED <<rtfsMutex, msg_z, first, animate, rtfs, stats, hist, real_z,
                 sim_z, usingLoadedData, shouldClose, cbpc, msg, rtf, ticks,
                 accepted, everOff>>


(***************************************************************************)
(* main: the render loop (lines 252-330) and the SIGINT handler.           *)
(***************************************************************************)

\* mutant: the loop condition does not look at shouldClose
MainPollIgnoreFlag ==
  /\ mainpc = "loop"
  /\ mainpc' = "lock"
  /\ UNCHANGED loadVars
  /\ UNCHANGED <<saveVars, sinceReset>>
  /\ UNCHANGED <<rtfsMutex, msg_z, first, animate, rtfs, stats, hist, real_z,
                 sim_z, usingLoadedData, shouldClose, subscribed, cbpc, msg,
                 rtf, ticks, accepted, everOff>>

\* while (!glfwWindowShouldClose(window) && !shouldClose)
MainPoll ==
  /\ mainpc = "loop"
  /\ mainpc' = IF shouldClose THEN "unsubscribe" ELSE "lock"
  /\ UNCHANGED loadVars
  /\ UNCHANGED <<saveVars, sinceReset>>
  /\ UNCHANGED <<rtfsMutex, msg_z, first, animate, rtfs, stats, hist, real_z,
                 sim_z, usingLoadedData, shouldClose, subscribed, cbpc, msg,
                 rtf, ticks, accepted, everOff>>

\* mutant: the render block runs without waiting for rtfsMutex
MainLockNoWait ==
  /\ mainpc = "lock"
  /\ rtfsMutex' = "main"
  /\ mainpc' = "ui"
  /\ UNCHANGED loadVars
  /\ UNCHANGED <<saveVars, sinceReset>>
  /\ UNCHANGED <<msg_z, first, animate, rtfs, stats, hist, real_z, sim_z,
                 usingLoadedData, shouldClose, subscribed, cbpc, msg, rtf,
                 ticks, accepted, everOff>>

\* std::lock_guard<std::mutex> lock(rtfsMutex) of the render block
MainLock ==
  /\ mainpc = "lock"
  /\ rtfsMutex = "free"
  /\ rtfsMutex' = "main"
  /\ mainpc' = "ui"
  /\ UNCHANGED loadVars
  /\ UNCHANGED <<saveVars, sinceReset>>
  /\ UNCHANGED <<msg_z, first, animate, rtfs, stats, hist, real_z, sim_z,
                 usingLoadedData, shouldClose, subscribed, cbpc, msg, rtf,
                 ticks, accepted, everOff>>

\* the widgets of one frame: the Animate checkbox and the Reset button
MainUi(toggle, reset) ==
  /\ mainpc = "ui"
  /\ animate' = IF toggle THEN ~animate ELSE animate
  /\ everOff' = (everOff \/ ~animate')
  /\ IF reset
     THEN /\ hist' = HistReset(hist)
          /\ stats' = StatsReset(stats)
          /\ usingLoadedData' = FALSE
          /\ sinceReset' = 0
     ELSE UNCHANGED <<hist, stats, usingLoadedData, sinceReset>>
  /\ mainpc' = "unlock"
  /\ UNCHANGED loadVars
  /\ UNCHANGED saveVars
  /\ UNCHANGED <<rtfsMutex, msg_z, first, rtfs, real_z, sim_z, shouldClose,
                 subscribed, cbpc, msg, rtf, ticks, accepted>>

\* ImGui::End(); the render block ends and releases rtfsMutex
MainUnlock ==
  /\ mainpc = "unlock"
  /\ rtfsMutex' = "free"
  /\ mainpc' = "loop"
  /\ UNCHANGED loadVars
  /\ UNCHANGED <<saveVars, sinceReset>>
  /\ UNCHANGED <<msg_z, first, animate, rtfs, stats, hist, real_z, sim_z,
                 usingLoadedData, shouldClose, subscribed, cbpc, msg, rtf,
                 ticks, accepted, everOff>>

\* std::signal(SIGINT, [](int) { shouldClose = true; })
Sigint ==
  /\ ~shouldClose
  /\ mainpc \in {"loop", "lock", "ui", "unlock"}
  /\ shouldClose' = TRUE
  /\ UNCHANGED loadVars
  /\ UNCHANGED <<saveVars, sinceReset>>
  /\ UNCHANGED <<rtfsMutex, msg_z, first, animate, rtfs, stats, hist, real_z,
                 sim_z, usingLoadedData, subscribed, cbpc, msg, rtf, mainpc,
                 ticks, accepted, everOff>>

\* node.Unsubscribe("/clock")
MainUnsubscribe ==
  /\ mainpc = "unsubscribe"
  /\ subscribed' = FALSE
  /\ mainpc' = "save"
  /\ UNCHANGED loadVars
  /\ UNCHANGED <<saveVars, sinceReset>>
  /\ UNCHANGED <<rtfsMutex, msg_z, first, animate, rtfs, stats, hist, real_z,
                 sim_z, usingLoadedData, shouldClose, cbpc, msg, rtf, ticks,
                 accepted, everOff>>

\* if (outputCsv.size()) { fs.open(outputCsv, std::ios::trunc);
\*   ToCsv(fs, stats, hist, sim_z.Double(), real_z.Double()); }
\* rtfsMutex is not taken
MainSave ==
  /\ mainpc = "save"
  /\ outputCsv # ""
  /\ outFile' = File(ToCsv(stats, hist, FromInt(sim_z), FromInt(real_z)))
  /\ saved' = [done |-> TRUE, simTime |-> sim_z, realTime |-> real_z,
               quiet |-> cbpc = "idle"]
  /\ mainpc' = "done"
  /\ UNCHANGED <<outputCsv, sinceReset>>
  /\ UNCHANGED loadVars
  /\ UNCHANGED <<rtfsMutex, msg_z, first, animate, rtfs, stats, hist, real_z,
                 sim_z, usingLoadedData, shouldClose, subscribed, cbpc, msg,
                 rtf, ticks, accepted, everOff>>

\* outputCsv is empty: return 0
MainSkipSave ==
  /\ mainpc = "save"
  /\ outputCsv = ""
  /\ mainpc' = "done"
  /\ UNCHANGED loadVars
  /\ UNCHANGED <<saveVars, sinceReset>>
  /\ UNCHANGED <<rtfsMutex, msg_z, first, animate, rtfs, stats, hist, real_z,
                 sim_z, usingLoadedData, shouldClose, subscribed, cbpc, msg,
                 rtf, ticks, accepted, everOff>>

\* the locals of main that exist before the --input file is looked at
InitMain ==
  /\ rtfsMutex = "free"
  /\ msg_z = ClockMsg(0, 0)
  /\ first = TRUE
  /\ animate = TRUE
  /\ rtfs = <<>>
  /\ stats = StatsEmpty
  /\ hist = HistConfigured
  /\ real_z = 0
  /\ sim_z = 0
  /\ usingLoadedData = FALSE
  /\ shouldClose = FALSE
  /\ subscribed = FALSE
  /\ cbpc = "idle"
  /\ msg = ClockMsg(0, 0)
  /\ rtf = Zero
  /\ mainpc = "start"
  /\ ticks = <<>>
  /\ accepted = <<>>
  /\ everOff = FALSE
  /\ loadedData = UninitData
  /\ load = NoLoad
  /\ outFile = NoFile
  /\ saved = NoSave
  /\ sinceReset = 0

\* a run without --input, with --output
InitLive ==
  /\ InitMain
  /\ outputCsv = "out.csv"
  /\ inputCsv = ""
  /\ inputFile = NoFile
  /\ snap = NoSession

\* a run with --input: the file is missing, or it is a file written by
\* ToCsv, whole or with one character removed or inserted
InitLoad ==
  /\ InitMain
  /\ outputCsv = "out.csv"
  /\ inputCsv = "in.csv"
  /\ snap \in Sessions
  /\ inputFile \in {NoFile} \cup {File(t) : t \in Edits(ToCsv(snap.stats, snap.hist, snap.simTime, snap.realTime))}

Callback ==
  \/ CbFirst
  \/ CbCompute
  \/ CbStats
  \/ CbHist
  \/ CbRtfs
  \/ CbReturn

Render ==
  \/ MainPoll
  \/ MainLock
  \/ \E toggle \in BOOLEAN, reset \in BOOLEAN : MainUi(toggle, reset)
  \/ MainUnlock

Next ==
  \/ MainSkipLoad
  \/ MainSubscribe
  \/ \E m \in AnyTick : CbEnter(m, MaxTicks)
  \/ Callback
  \/ Render
  \/ Sigint
  \/ MainUnsubscribe
  \/ MainSave

Spec == InitLive /\ [][Next]_vars

(***************************************************************************)
(* SpecLoad: the runs with --input.                                        *)
(***************************************************************************)
NextLoad ==
  \/ MainLoad
  \/ MainSubscribe
  \/ Render
  \/ Sigint
  \/ MainUnsubscribe
  \/ MainSave

SpecLoad == InitLoad /\ [][NextLoad]_vars

(***************************************************************************)
(* SpecBuf: long runs of the callback alone, enough to overflow rtfs.  The *)
(* first message selects the run; real time advances by one second per     *)
(* message except where the run repeats a real time (a dropped tick).      *)
(***************************************************************************)
RunStarts == {ClockMsg(s, 0) : s \in 0 .. 2}

RunNext(ts) ==
  LET k == Len(ts)
      last == ts[k]
      run == ts[1].sim
  IN  CASE run = 0 -> ClockMsg(last.sim + (k % 7), last.real + 1)
        [] run = 1 -> ClockMsg(last.sim + (k % 3), last.real + 1)
        [] OTHER   -> ClockMsg(last.sim + (k % 4),
                               last.real + (IF k % 5 = 0 THEN 0 ELSE 2))

RunTicks == IF ticks = <<>> THEN RunStarts ELSE {RunNext(ticks)}

\* messages needed to store MaxOver samples beyond the capacity in every run
RunLength == ((kRtfsLimit + 1 + MaxOver) * 5) \div 4 + 2

NextBuf ==
  \/ MainSkipLoad
  \/ MainSubscribe
  \/ \E m \in RunTicks : CbEnter(m, RunLength)
  \/ Callback

SpecBuf == InitLive /\ [][NextBuf]_vars

(***************************************************************************)
(* Properties of the live pipeline.                                        *)
(***************************************************************************)

\* the RTF of the interval that ends at the k-th delivered message
IntervalRtf(k) ==
  FDiv(FromInt(ticks[k].sim - ticks[k - 1].sim),
       FromInt(ticks[k].real - ticks[k - 1].real))

\* the stored sample number i, as the buffer holds it
StoredSample(i) == FloatOf(IntervalRtf(accepted[i]))

kRtfsCapacity == kRtfsLimit + 1

\* accepted samples that the callback has applied to all three aggregates
Applied ==
  IF cbpc \in {"stats", "hist", "rtfs"}
  THEN Len(accepted) - 1 ELSE Len(accepted)

\* the last (at most kRtfsCapacity) of the first n stored samples, oldest first
LastStored(n) ==
  LET len == IF n > kRtfsCapacity THEN kRtfsCapacity ELSE n
  IN  [i \in 1 .. len |-> StoredSample(n - len + i)]

RECURSIVE StatsOver(_, _)
StatsOver(from, to) ==
  IF from > to THEN StatsEmpty
  ELSE StatsInsertData(StatsOver(from, to - 1), IntervalRtf(accepted[to]))

RECURSIVE HistOver(_, _)
HistOver(from, to) ==
  IF from > to THEN HistConfigured
  ELSE HistInsertData(HistOver(from, to - 1), IntervalRtf(accepted[to]))

StrictlyIncreasingReal ==
  \A k \in 2 .. Len(ticks) : ticks[k - 1].real < ticks[k].real

\* C1: the first tick only becomes the baseline and stores nothing; the
\* baseline is the last tick received after every callback, stored or not; a
\* sample is the RTF of the interval between a tick and the tick before it;
\* with Animate never unchecked and strictly increasing real times, k ticks
\* leave exactly k-1 samples, those of the ticks 2..k in order.
C1_PerIntervalRtf ==
  /\ ticks = <<>> => first
  /\ Len(ticks) <= 1 => accepted = <<>> /\ rtfs = <<>> /\ stats.count = 0
  /\ (cbpc = "idle" /\ ticks # <<>>) => ~first /\ msg_z = ticks[Len(ticks)]
  /\ cbpc \in {"stats", "hist", "rtfs"} =>
       /\ accepted[Len(accepted)] = Len(ticks)
       /\ rtf = IntervalRtf(Len(ticks))
  /\ \A i \in 1 .. Len(accepted) : accepted[i] \in 2 .. Len(ticks)
  /\ rtfs = LastStored(Applied)
  /\ (cbpc = "idle" /\ ~everOff /\ StrictlyIncreasingReal /\ ticks # <<>>
        /\ Len(ticks) <= kRtfsCapacity) =>
       /\ Len(rtfs) = Len(ticks) - 1
       /\ accepted = [i \in 1 .. Len(ticks) - 1 |-> i + 1]

\* C1 witness: the ticks (0,0),(1,1),(3,2) have left the samples 1 then 2
C1_Witness ==
  /\ cbpc = "idle"
  /\ ticks = <<ClockMsg(0, 0), ClockMsg(1, 1), ClockMsg(3, 2)>>
  /\ rtfs = <<FloatOf(FromInt(1)), FloatOf(FromInt(2))>>

C3_BoundedBuffer ==
  /\ Len(rtfs) <= kRtfsCapacity
  /\ rtfs = LastStored(Applied)
  /\ Applied >= kRtfsCapacity => Len(rtfs) = kRtfsCapacity

\* C3 witness: MaxOver samples beyond the capacity have been stored
C3_Witness ==
  /\ cbpc = "idle"
  /\ Len(accepted) = kRtfsCapacity + MaxOver
  /\ Len(rtfs) = kRtfsCapacity
  /\ rtfs[1] = StoredSample(MaxOver + 1)

ZeroDeltaTick ==
  /\ Len(ticks) >= 2
  /\ ticks[Len(ticks)].real = ticks[Len(ticks) - 1].real

\* C4: a tick whose real time equals the baseline's stores nothing: no step
\* of its callback changes the stats, the histogram or the buffer, the
\* callback goes straight to its return, the baseline advances to the tick,
\* and the tick after it is measured against it.
C4_ZeroDeltaStoresNothing ==
  /\ [](ZeroDeltaTick =>
          /\ cbpc \in {"idle", "first", "return"}
          /\ accepted = <<>> \/ accepted[Len(accepted)] # Len(ticks))
  /\ [](ZeroDeltaTick /\ cbpc \in {"idle", "return"} =>
          msg_z = ticks[Len(ticks)])
  /\ [][ZeroDeltaTick /\ cbpc # "idle" =>
          stats' = stats /\ hist' = hist /\ rtfs' = rtfs]_vars
  /\ [](Len(ticks) >= 3 /\ cbpc \in {"stats", "hist", "rtfs"} =>
          rtf = IntervalRtf(Len(ticks)))

\* C4 witness: the second tick repeated the first one's real time and was
\* dropped, and the third tick's sample has been stored
C4_Witness ==
  /\ cbpc = "idle"
  /\ Len(ticks) = 3
  /\ ticks[2].real = ticks[1].real
  /\ accepted = <<3>>
  /\ Len(rtfs) = 1
  /\ stats.count = 1


(***************************************************************************)
(* The persisted session: decoding under SpecLoad.                         *)
(***************************************************************************)

\* numerals, by their grammar: white space, a sign, then digits, and for a
\* double a point among the digits and an exponent
Unsigned(t) == IF t # <<>> /\ IsSign(t[1]) THEN Tail(t) ELSE t
AllDigits(t) == \A i \in 1 .. Len(t) : IsDigit(t[i])
IsInteger(t) == t # <<>> /\ AllDigits(t)

IsDecimal(t) ==
  \E k \in 0 .. Len(t) :
    /\ AllDigits(SubSeq(t, 1, k))
    /\ \/ k = Len(t) /\ k > 0
       \/ /\ k < Len(t)
          /\ t[k + 1] = "."
          /\ AllDigits(SubSeq(t, k + 2, Len(t)))
          /\ Len(t) > 1

IsFloating(t) ==
  \E k \in 1 .. Len(t) :
    /\ IsDecimal(SubSeq(t, 1, k))
    /\ \/ k = Len(t)
       \/ /\ t[k + 1] \in {"e", "E"}
          /\ IsInteger(Unsigned(SubSeq(t, k + 2, Len(t))))

IsNumeral(kind, str) ==
  LET t == Unsigned(SubSeq(str, FirstNotSpace(str, 1), Len(str)))
  IN  IF kind = "double" THEN IsFloating(t) ELSE IsInteger(t)

\* a numeral followed by characters that make the field no numeral
HasLeftover(kind, str) ==
  /\ ~IsNumeral(kind, str)
  /\ \E k \in 1 .. Len(str) - 1 : IsNumeral(kind, SubSeq(str, 1, k))

\* the text of the input is what ToCsv writes for the session snap
Encoded == ToCsv(snap.stats, snap.hist, snap.simTime, snap.realTime)

\* what the session snap shows of its statistics and times
Shown ==
  [count |-> StatsCount(snap.stats), mean |-> StatsMap(snap.stats).mean,
   var |-> StatsMap(snap.stats).var, max |-> StatsMap(snap.stats).max,
   min |-> StatsMap(snap.stats).min, realTime |-> snap.realTime,
   simTime |-> snap.simTime]

\* C5: a text with a token after the last histogram count fails to decode:
\* whenever FromCsv has got past the histogram and something other than
\* white space follows it, FromCsv throws.
C5_TrailingTokenRejected ==
  (load.done /\ \E i \in 1 .. Len(load.tail) : ~IsSpace(load.tail[i]))
    => load.threw

\* C6: round trip: the text that ToCsv writes for a session is accepted by
\* FromCsv, and the loaded statistics, times and histogram equal the
\* session's.
C6_RoundTrip ==
  (load.done /\ inputFile = File(Encoded))
    => /\ ~load.threw
       /\ loadedData = Shown
       /\ hist = snap.hist

\* C7: GetNextCsv throws on every field that is a numeral followed by
\* leftover characters.
C7_LeftoverRejected ==
  load.done =>
    \A i \in 1 .. Len(load.fields) :
      HasLeftover(load.fields[i].kind, load.fields[i].str) => load.threw

\* C8: decoding throws whenever a field is no numeral (an empty field, a
\* lone sign, ...): an accepted text has a numeral in every field read.
C8_UnparseableRejected ==
  (load.done /\ ~load.threw) =>
    \A i \in 1 .. Len(load.fields) :
      IsNumeral(load.fields[i].kind, load.fields[i].str)

\* C9: decoding throws when no white space stands between the comma that
\* ends line 1 and the first field of line 2.
C9_JoinedLinesRejected ==
  (load.done /\ Len(load.separators) >= 1 /\ load.separators[1].str = <<>>)
    => load.threw

\* C10: a load that throws leaves the histogram, the statistics and the
\* samples as they were before it, and the program goes on to its loop.
C10_FailedLoadHarmless ==
  (load.done /\ load.threw)
    => /\ hist = HistConfigured
       /\ stats = StatsEmpty
       /\ rtfs = <<>>
       /\ mainpc # "aborted"

(***************************************************************************)
(* The save step (lines 339-346).                                          *)
(***************************************************************************)

\* the tick the callback received last
LastTick == ticks[Len(ticks)]

\* C11: the times written on the first line of the saved file are those of
\* the last tick the callback received, the tick that is the baseline msg_z,
\* for every sequence of one or more ticks (no callback running at the save).
C11_SavedTimesOfLastTick ==
  (saved.done /\ saved.quiet /\ ticks # <<>>)
    => /\ msg_z = LastTick
       /\ saved.simTime = LastTick.sim
       /\ saved.realTime = LastTick.real
       /\ outFile.text = ToCsv(stats, hist, FromInt(LastTick.sim),
                               FromInt(LastTick.real))

\* C12: the file is written at most once, after the render loop has exited,
\* and no clock callback is running while ToCsv reads the stats, the histogram
\* and the timestamps, nor changes any of them after ToCsv has read them.
C12_SaveWithoutConcurrentAccess ==
  [][/\ saved.done => saved' = saved /\ outFile' = outFile
     /\ (~saved.done /\ saved'.done)
          => /\ mainpc = "save"
             /\ cbpc = "idle"
             /\ rtfsMutex = "free"
     /\ saved.done => UNCHANGED <<stats, hist, real_z, sim_z>>]_vars

(***************************************************************************)
(* SpecRun: whole runs, with or without --input and --output; an input     *)
(* file is missing or as ToCsv wrote it.                                   *)
(***************************************************************************)
MaxRunTicks == 2

InitRun ==
  /\ InitMain
  /\ outputCsv \in {"", "out.csv"}
  /\ \/ /\ inputCsv = ""
        /\ inputFile = NoFile
        /\ snap = NoSession
     \/ /\ inputCsv = "in.csv"
        /\ snap \in Sessions
        /\ inputFile \in {NoFile,
                          File(ToCsv(snap.stats, snap.hist, snap.simTime,
                                     snap.realTime))}

NextRun ==
  \/ MainLoad
  \/ MainSkipLoad
  \/ MainSubscribe
  \/ \E m \in AnyTick : CbEnter(m, MaxRunTicks)
  \/ Callback
  \/ Render
  \/ Sigint
  \/ MainUnsubscribe
  \/ MainSave
  \/ MainSkipSave

SpecRun == InitRun /\ [][NextRun]_vars

Loaded == load.done /\ ~load.threw

\* C13: once a session has been loaded from the input file no clock tick is
\* applied for the rest of the run: no callback is subscribed or running, the
\* stats and the recent buffer stay empty and the histogram holds the loaded
\* counts or, after Reset, none; also after Reset has switched the display
\* back from the loaded data.
C13_NoTicksAfterLoad ==
  Loaded =>
    /\ ~subscribed
    /\ cbpc = "idle"
    /\ ticks = <<>>
    /\ accepted = <<>>
    /\ rtfs = <<>>
    /\ stats = StatsEmpty
    /\ hist \in {load.hist, HistReset(load.hist)}

\* a session was loaded, Reset was pressed and the render loop goes on
C13_Witness ==
  /\ Loaded
  /\ ~usingLoadedData
  /\ mainpc = "lock"
  /\ HistTotal(load.hist) > 0
  /\ hist = HistReset(load.hist)

\* C14: after a successful load no step of the program (render step, Reset,
\* Animate toggle, save) changes the loaded stats values and timestamps or the
\* loaded histogram bin counts.
C14_LoadedSnapshotImmutable ==
  [][Loaded => /\ loadedData' = loadedData
               /\ hist' = hist
               /\ hist = load.hist]_vars

(***************************************************************************)
(* The aggregates of the live pipeline.                                    *)
(***************************************************************************)

\* the accepted samples, by their position in accepted, that hist.InsertData
\* has counted since the start or the last Reset
Counted ==
  {i \in 1 .. Len(accepted) :
     /\ i > Len(accepted) - sinceReset
     /\ ~(cbpc \in {"stats", "hist"} /\ i = Len(accepted))}

\* the sum of f over the set S
RECURSIVE SumOver(_, _)
SumOver(f, S) ==
  IF S = {} THEN 0
  ELSE LET i == CHOOSE j \in S : TRUE IN f[i] + SumOver(f, S \ {i})

\* C15: in live mode the sum of the histogram's bin counts is the number of
\* finite samples stored since the start or the last Reset, whatever their
\* values; a sample below rangeMin is counted in the first bin and a sample
\* at or above rangeMax in the last bin, none is dropped.
C15_HistogramConservation ==
  LET below == {i \in Counted :
                  FLess(IntervalRtf(accepted[i]), hist.rangeMin)}
      above == {i \in Counted :
                  ~FLess(IntervalRtf(accepted[i]), hist.rangeMax)}
      used == {i \in DOMAIN hist.counts : hist.counts[i] # 0}
  IN  /\ SumOver(hist.counts, used) = Cardinality(Counted)
      /\ \A i \in used : hist.counts[i] > 0
      /\ hist.counts[0] >= Cardinality(below)
      /\ hist.counts[hist.numBins - 1] >= Cardinality(above)

\* C15 witness: two samples are counted, -2 below the range in the first bin
\* and 3 above it in the last bin
C15_Witness ==
  /\ cbpc = "idle"
  /\ sinceReset = 2
  /\ Cardinality(Counted) = 2
  /\ \E i \in Counted : FLess(IntervalRtf(accepted[i]), hist.rangeMin)
  /\ \E i \in Counted : ~FLess(IntervalRtf(accepted[i]), hist.rangeMax)
  /\ hist.counts[0] = 1
  /\ hist.counts[hist.numBins - 1] = 1

(***************************************************************************)
(* SpecFair: the live runs under fair scheduling.  The main thread keeps   *)
(* running, a callback that has started runs to its end, and the render    *)
(* block gets rtfsMutex if it is free again and again.                     *)
(***************************************************************************)
MaxFairTicks == 2

NextFair ==
  \/ MainSkipLoad
  \/ MainSubscribe
  \/ \E m \in AnyTick : CbEnter(m, MaxFairTicks)
  \/ Callback
  \/ Render
  \/ Sigint
  \/ MainUnsubscribe
  \/ MainSave

\* WF_vars(CbStats) /\ WF_vars(CbHist) without ENABLED: each of the two steps
\* is enabled exactly while cbpc is at it, and taking it moves cbpc on
InsertsReturn == []<>(cbpc # "stats") /\ []<>(cbpc # "hist")

SpecFair ==
  /\ InitLive
  /\ [][NextFair]_vars
  /\ WF_vars(CbFirst)
  /\ WF_vars(CbCompute)
  /\ InsertsReturn
  /\ WF_vars(CbRtfs)
  /\ WF_vars(CbReturn)
  /\ WF_vars(MainPoll)
  /\ SF_vars(MainLock)
  /\ WF_vars(\E toggle \in BOOLEAN, reset \in BOOLEAN : MainUi(toggle, reset))
  /\ WF_vars(MainUnlock)

InIteration == mainpc \in {"lock", "ui", "unlock"}
LoopExited == mainpc \in {"unsubscribe", "save", "done"}

\* C16: once SIGINT has set shouldClose the render loop eventually exits; the
\* flag stays set and is looked at only by the loop condition, so an iteration
\* in progress runs to its end, lock acquisition included, no iteration
\* starts after a poll that sees the flag set, and the loop is not re-entered.
C16_CooperativeCancellation ==
  /\ shouldClose ~> LoopExited
  /\ (shouldClose /\ InIteration) ~> mainpc = "loop"
  /\ [][shouldClose => shouldClose']_vars
  /\ [][(InIteration /\ mainpc' # mainpc)
          => mainpc' \in {"ui", "unlock", "loop"}]_vars
  /\ [][(mainpc = "loop" /\ mainpc' # mainpc)
          => mainpc' = IF shouldClose THEN "unsubscribe" ELSE "lock"]_vars
  /\ [][LoopExited => LoopExited']_vars

\* C16 witness: ticks were received, SIGINT has set the flag, and the poll
\* that saw it has left the loop
C16_Witness ==
  /\ shouldClose
  /\ mainpc = "unsubscribe"
  /\ ticks # <<>>

NonDecreasingSim ==
  \A k \in 2 .. Len(ticks) : ticks[k - 1].sim <= ticks[k].sim

\* C17: no sample is stored for a tick whose real time is less than the
\* baseline's; so with non-decreasing simulated time every value held by the
\* stats, the histogram and the recent buffer is finite and not negative.
C17_NoSampleForNegativeDelta ==
  NonDecreasingSim =>
    /\ \A i \in 1 .. Len(accepted) :
         ticks[accepted[i]].real >= ticks[accepted[i] - 1].real
    /\ \A i \in 1 .. Len(rtfs) : isfinite(rtfs[i]) /\ rtfs[i].n >= 0
    /\ isfinite(stats.min) /\ stats.min.n >= 0
    /\ isfinite(stats.sum) /\ stats.sum.n >= 0
    /\ cbpc \in {"stats", "hist", "rtfs"} => isfinite(rtf) /\ rtf.n >= 0

\* C18: every finite RTF sample is inserted once into each of the stats, the
\* histogram and the recent buffer, in arrival order: when a callback has
\* returned, every tick after the first whose interval has a finite RTF is
\* among the accepted samples, and the aggregates are not left unchanged.
C18_EveryFiniteSampleStored ==
  /\ (rtfsMutex # "cb")
       => \A k \in 2 .. Len(ticks) :
            isfinite(IntervalRtf(k))
              => \E i \in 1 .. Len(accepted) : accepted[i] = k
  /\ \A i \in 1 .. Len(accepted) - 1 : accepted[i] < accepted[i + 1]
  /\ (rtfsMutex # "cb" /\ sinceReset = Len(accepted))
       => /\ stats.count = Len(accepted)
          /\ HistTotal(hist) = Len(accepted)
          /\ Len(rtfs) = Len(accepted)

\* C19: the Reset button returns every aggregate to its empty state: right
\* after it the stats count is 0, every histogram bin count is 0 with the bin
\* configuration unchanged, and the recent-sample buffer is empty.
C19_ResetEmptiesAggregates ==
  [][(\E toggle \in BOOLEAN : MainUi(toggle, TRUE))
       => /\ stats' = StatsEmpty
          /\ \A i \in DOMAIN hist'.counts : hist'.counts[i] = 0
          /\ hist'.numBins = hist.numBins
          /\ hist'.rangeMin = hist.rangeMin
          /\ hist'.rangeMax = hist.rangeMax
          /\ rtfs' = <<>>]_vars

\* C20: whenever the lock is free, also after a load from file and after a
\* Reset, the stats' sample count is the sum of the histogram's bin counts;
\* so the count on line 2 of every file the save step writes is the sum of
\* the bin counts on its line 4, also when the run started from a load.
C20_CountIsHistogramSum ==
  /\ (rtfsMutex = "free" /\ mainpc # "start")
       => StatsCount(stats) = HistTotal(hist)
  /\ saved.done
       => /\ outFile.text = ToCsv(stats, hist, FromInt(saved.simTime),
                                  FromInt(saved.realTime))
          /\ StatsCount(stats) = HistTotal(hist)

====
